---- MODULE Spec2Model ----
(***************************************************************************)
(* SocialNetwork (src/Main.cpp): an undirected friendship graph kept as    *)
(* map<string, set<string>> adj, with its mutations (addUser,              *)
(* addFriendship) and its queries (getFriends, getMutualFriends,           *)
(* suggestFriends, shortestPathBFS, shortestPathDijkstra).                 *)
(*                                                                         *)
(* A std::string is a finite sequence of character codes; std::map and     *)
(* std::set iterate in ascending std::string order.                        *)
(***************************************************************************)
EXTENDS Integers, Sequences, FiniteSets, TLC

\* ------------------------------------------------------------- bounds
\* Number of distinct labels the callers pass in.
NumLabels == 4
\* Number of distinct friendships (self-friendships included) the callers build.
MaxEdges == 4
\* The same two bounds for SpecSuggest, whose cases need a larger network.
NumSuggestLabels == 5
MaxSuggestEdges == 5
\* The same two bounds for SpecSteps, which runs the searches step by step.
NumStepLabels == 3
MaxStepEdges == 4

\* ------------------------------------------------------------- strings
\* The n-th string over the two-letter alphabet {1, 2}, shortest first:
\* "", "1", "2", "11", "12", "21", ...  (the empty string is a label too).
RECURSIVE NthString(_)
NthString(n) ==
    IF n = 0 THEN <<>>
    ELSE LET d == IF n % 2 = 0 THEN 2 ELSE 1
         IN  Append(NthString((n - d) \div 2), d)

LabelSet(k) == {NthString(n) : n \in 0..(k - 1)}

Labels == LabelSet(NumLabels)
SuggestLabels == LabelSet(NumSuggestLabels)
StepLabels == LabelSet(NumStepLabels)

\* std::string operator< : lexicographic comparison.
RECURSIVE StrLess(_, _)
StrLess(s, t) ==
    IF t = <<>> THEN FALSE
    ELSE IF s = <<>> THEN TRUE
    ELSE IF Head(s) # Head(t) THEN Head(s) < Head(t)
    ELSE StrLess(Tail(s), Tail(t))

\* The empty std::string, which the path searches use as "no parent".
EmptyString == <<>>

\* Iteration order of a std::set<string> / the keys of a std::map<string,_>:
\* ascending by operator<.
RECURSIVE Ordered(_)
Ordered(S) ==
    IF S = {} THEN <<>>
    ELSE LET m == CHOOSE x \in S : \A y \in S \ {x} : StrLess(x, y)
         IN  <<m>> \o Ordered(S \ {m})

\* ------------------------------------------------------------- state
VARIABLES
    adj,      \* SocialNetwork::adj : user label -> set of friend labels
    result    \* what the call in progress hands back to its caller
vars == <<adj, result>>

NoCall == [op |-> "none"]

\* map::operator[] followed by set::insert: adj[k].insert(v).  operator[]
\* creates the entry k when it is absent.
MapInsert(m, k, v) ==
    [x \in DOMAIN m \cup {k} |->
        IF x = k THEN (IF k \in DOMAIN m THEN m[k] ELSE {}) \cup {v}
        ELSE m[x]]

\* The friendships of the network, each as the set of its one or two ends.
Edges(m) ==
    LET pairs == UNION {{<<a, b>> : b \in m[a]} : a \in DOMAIN m}
    IN  {{p[1], p[2]} : p \in pairs}

Init ==
    /\ adj = <<>>
    /\ result = NoCall

\* ------------------------------------------------------------- mutation
\* The map after addUser(userName).
addUserAdj(m, userName) ==
    IF userName \notin DOMAIN m
    THEN [x \in DOMAIN m \cup {userName} |->
             IF x = userName THEN {} ELSE m[x]]
    ELSE m

addUser(userName) ==
    /\ result = NoCall
    /\ adj' = addUserAdj(adj, userName)
    /\ result' = [op |-> "addUser",
                  out |-> IF userName \notin DOMAIN adj THEN "added" ELSE "silent"]

\* The guard of addFriendship as a plausible slip would write it.
bothExistSlip(m, user1, user2) ==
    user1 \in DOMAIN m \/ user2 \in DOMAIN m

bothExist(m, user1, user2) ==
    user1 \in DOMAIN m /\ user2 \in DOMAIN m

\* addFriendship with the second insert forgotten.
addFriendshipOneWay(m, user1, user2) ==
    IF bothExist(m, user1, user2)
    THEN MapInsert(m, user1, user2)
    ELSE m

\* The map after addFriendship(user1, user2).
addFriendshipAdj(m, user1, user2) ==
    IF bothExist(m, user1, user2)
    THEN MapInsert(MapInsert(m, user1, user2), user2, user1)
    ELSE m

addFriendship(user1, user2) ==
    /\ result = NoCall
    /\ adj' = addFriendshipAdj(adj, user1, user2)
    /\ result' = [op |-> "addFriendship",
                  out |-> IF bothExist(adj, user1, user2) THEN "added" ELSE "missing"]

\* getFriends(userName): the friend set, or an empty set for an unknown user.
getFriendsOf(m, userName) ==
    IF userName \in DOMAIN m THEN m[userName] ELSE {}

getFriends(userName) ==
    /\ result = NoCall
    /\ result' = [op |-> "getFriends", a |-> userName,
                  val |-> getFriendsOf(adj, userName)]
    /\ UNCHANGED adj

\* ------------------------------------------------------------- mutual friends
\* std::set_intersection over two ascending ranges.
RECURSIVE setIntersection(_, _)
setIntersection(r1, r2) ==
    IF r1 = <<>> \/ r2 = <<>> THEN <<>>
    ELSE IF StrLess(Head(r1), Head(r2)) THEN setIntersection(Tail(r1), r2)
    ELSE IF StrLess(Head(r2), Head(r1)) THEN setIntersection(r1, Tail(r2))
    ELSE <<Head(r1)>> \o setIntersection(Tail(r1), Tail(r2))

getMutualFriendsOf(m, user1, user2) ==
    IF user1 \notin DOMAIN m \/ user2 \notin DOMAIN m THEN {}
    ELSE LET out == setIntersection(Ordered(m[user1]), Ordered(m[user2]))
         IN  {out[i] : i \in 1..Len(out)}

getMutualFriends(user1, user2) ==
    /\ result = NoCall
    /\ result' = [op |-> "getMutualFriends", a |-> user1, b |-> user2,
                  val |-> getMutualFriendsOf(adj, user1, user2)]
    /\ UNCHANGED adj

\* ------------------------------------------------------------- suggestions
\* suggestionCounts[k]++ : operator[] starts an absent key at 0.
Increment(counts, k) ==
    [x \in DOMAIN counts \cup {k} |->
        IF x = k THEN (IF k \in DOMAIN counts THEN counts[k] ELSE 0) + 1
        ELSE counts[x]]

\* isCandidate with the test against the queried user forgotten.
isCandidateSelfSlip(m, userName, directFriends, potentialFriend) ==
    /\ potentialFriend \notin directFriends
    /\ potentialFriend \in DOMAIN m

\* The test that lets a friend of a friend count as a candidate.
isCandidate(m, userName, directFriends, potentialFriend) ==
    /\ potentialFriend # userName
    /\ potentialFriend \notin directFriends
    /\ potentialFriend \in DOMAIN m

\* The inner loop: the friends of one direct friend.
RECURSIVE countFriendsOfFriend(_, _, _, _, _)
countFriendsOfFriend(m, userName, directFriends, fofs, counts) ==
    IF fofs = <<>> THEN counts
    ELSE countFriendsOfFriend(m, userName, directFriends, Tail(fofs),
             IF isCandidate(m, userName, directFriends, Head(fofs))
             THEN Increment(counts, Head(fofs))
             ELSE counts)

\* The outer loop: every direct friend, skipping one that has no entry.
RECURSIVE countSuggestions(_, _, _, _, _)
countSuggestions(m, userName, directFriends, friends, counts) ==
    IF friends = <<>> THEN counts
    ELSE countSuggestions(m, userName, directFriends, Tail(friends),
             IF Head(friends) \notin DOMAIN m THEN counts
             ELSE countFriendsOfFriend(m, userName, directFriends,
                                       Ordered(m[Head(friends)]), counts))

\* The comparator with the score comparison turned around.
goesBeforeAscending(a, b) ==
    IF a[2] # b[2] THEN a[2] < b[2] ELSE StrLess(a[1], b[1])

\* The comparator handed to std::sort: a goes before b.
goesBefore(a, b) ==
    IF a[2] # b[2] THEN a[2] > b[2] ELSE StrLess(a[1], b[1])

\* std::sort with that comparator (a strict total order on distinct labels,
\* so the sorted vector does not depend on the sorting algorithm).
RECURSIVE insertSorted(_, _)
insertSorted(sorted, e) ==
    IF sorted = <<>> THEN <<e>>
    ELSE IF goesBefore(e, Head(sorted)) THEN <<e>> \o sorted
    ELSE <<Head(sorted)>> \o insertSorted(Tail(sorted), e)

RECURSIVE sortSuggestions(_, _)
sortSuggestions(v, sorted) ==
    IF v = <<>> THEN sorted
    ELSE sortSuggestions(Tail(v), insertSorted(sorted, Head(v)))

suggestFriendsOf(m, userName) ==
    IF userName \notin DOMAIN m THEN <<>>
    ELSE LET directFriends == m[userName]
             suggestionCounts ==
                 countSuggestions(m, userName, directFriends,
                                  Ordered(directFriends), <<>>)
             keys == Ordered(DOMAIN suggestionCounts)
             unsorted == [i \in 1..Len(keys) |-> <<keys[i], suggestionCounts[keys[i]]>>]
         IN  sortSuggestions(unsorted, <<>>)

suggestFriends(userName) ==
    /\ result = NoCall
    /\ result' = [op |-> "suggestFriends", a |-> userName,
                  val |-> suggestFriendsOf(adj, userName)]
    /\ UNCHANGED adj

\* ------------------------------------------------------------- BFS
\* map<string,string>::operator[] read: the value, or a fresh empty string.
ParentOf(parent, k) ==
    IF k \in DOMAIN parent THEN parent[k] ELSE EmptyString

\* bfsExplore reporting the distance of the node being expanded.
RECURSIVE bfsExploreOffByOne(_, _, _, _)
bfsExploreOffByOne(st, currentUser, nbrs, endUser) ==
    IF nbrs = <<>> THEN st
    ELSE LET neighbor == Head(nbrs) IN
         IF neighbor \in DOMAIN st.dist /\ st.dist[neighbor] = -1
         THEN LET st1 == [st EXCEPT !.dist[neighbor] = st.dist[currentUser] + 1,
                                    !.parent[neighbor] = currentUser,
                                    !.q = Append(@, neighbor)]
              IN  IF neighbor = endUser
                  THEN [st1 EXCEPT !.found = TRUE,
                                   !.distance = st1.dist[currentUser]]
                  ELSE bfsExploreOffByOne(st1, currentUser, Tail(nbrs), endUser)
         ELSE bfsExploreOffByOne(st, currentUser, Tail(nbrs), endUser)

\* The for loop over adj.at(currentUser), in set order, with its break.
RECURSIVE bfsExplore(_, _, _, _)
bfsExplore(st, currentUser, nbrs, endUser) ==
    IF nbrs = <<>> THEN st
    ELSE LET neighbor == Head(nbrs) IN
         IF neighbor \in DOMAIN st.dist /\ st.dist[neighbor] = -1
         THEN LET st1 == [st EXCEPT !.dist[neighbor] = st.dist[currentUser] + 1,
                                    !.parent[neighbor] = currentUser,
                                    !.q = Append(@, neighbor)]
              IN  IF neighbor = endUser
                  THEN [st1 EXCEPT !.found = TRUE,
                                   !.distance = st1.dist[neighbor]]
                  ELSE bfsExplore(st1, currentUser, Tail(nbrs), endUser)
         ELSE bfsExplore(st, currentUser, Tail(nbrs), endUser)

\* bfsLoop with the negation of found forgotten: the loop never runs.
bfsLoopNotFoundSlip(m, st, endUser) ==
    IF st.q # <<>> /\ st.found THEN [st EXCEPT !.q = Tail(@)] ELSE st

\* while (!q.empty() && !found)
RECURSIVE bfsLoop(_, _, _)
bfsLoop(m, st, endUser) ==
    IF st.q # <<>> /\ ~st.found
    THEN LET currentUser == Head(st.q)
             st1 == [st EXCEPT !.q = Tail(@)]
         IN  bfsLoop(m, bfsExplore(st1, currentUser, Ordered(m[currentUser]), endUser),
                     endUser)
    ELSE st

\* while (!current.empty()) { path.push_front(current); current = parent[current]; }
RECURSIVE bfsPath(_, _, _)
bfsPath(parent, current, path) ==
    IF current # EmptyString
    THEN bfsPath(parent, ParentOf(parent, current), <<current>> \o path)
    ELSE path

shortestPathBFSOf(m, startUser, endUser) ==
    IF startUser \notin DOMAIN m THEN [distance |-> -1, path |-> <<>>]
    ELSE IF endUser \notin DOMAIN m THEN [distance |-> -1, path |-> <<>>]
    ELSE IF startUser = endUser THEN [distance |-> 0, path |-> <<startUser>>]
    ELSE LET st0 == [q        |-> <<startUser>>,
                     dist     |-> [x \in DOMAIN m |-> IF x = startUser THEN 0 ELSE -1],
                     parent   |-> [x \in DOMAIN m |-> EmptyString],
                     found    |-> FALSE,
                     distance |-> -1]
             st == bfsLoop(m, st0, endUser)
         IN  [distance |-> st.distance,
              path     |-> IF st.found THEN bfsPath(st.parent, endUser, <<>>) ELSE <<>>]

shortestPathBFS(startUser, endUser) ==
    /\ result = NoCall
    /\ result' = [op |-> "shortestPathBFS", a |-> startUser, b |-> endUser,
                  val |-> shortestPathBFSOf(adj, startUser, endUser)]
    /\ UNCHANGED adj

\* ------------------------------------------------------------- Dijkstra
\* numeric_limits<int>::max()
INF == 2147483647

\* greater<pair<int,string>> makes the queue a min-queue on (distance, label).
PairLess(p, r) ==
    p[1] < r[1] \/ (p[1] = r[1] /\ StrLess(p[2], r[2]))

\* pq.top(): an entry no other entry is less than.
pqTop(pq) ==
    LET i == CHOOSE i \in 1..Len(pq) : \A j \in 1..Len(pq) : ~PairLess(pq[j], pq[i])
    IN  pq[i]

\* pq.pop(): one copy of the top leaves the queue.
pqPop(pq) ==
    LET i == CHOOSE i \in 1..Len(pq) : \A j \in 1..Len(pq) : ~PairLess(pq[j], pq[i])
    IN  SubSeq(pq, 1, i - 1) \o SubSeq(pq, i + 1, Len(pq))

\* The relaxation test with the comparison of the distances forgotten.
relaxesWithoutComparison(dist, u, v) ==
    dist[u] # INF

\* The relaxation test of one edge u - v of weight 1.
relaxes(dist, u, v) ==
    dist[u] # INF /\ dist[u] + 1 < dist[v]

\* dijkstraRelax with the push of the relaxed neighbour forgotten.
RECURSIVE dijkstraRelaxNoPush(_, _, _)
dijkstraRelaxNoPush(st, u, nbrs) ==
    IF nbrs = <<>> THEN st
    ELSE LET v == Head(nbrs) IN
         IF v \in DOMAIN st.dist /\ relaxes(st.dist, u, v)
         THEN dijkstraRelaxNoPush([st EXCEPT !.dist[v] = st.dist[u] + 1,
                                             !.parent[v] = u],
                                  u, Tail(nbrs))
         ELSE dijkstraRelaxNoPush(st, u, Tail(nbrs))

\* The for loop over adj.at(u): relax every neighbour.
RECURSIVE dijkstraRelax(_, _, _)
dijkstraRelax(st, u, nbrs) ==
    IF nbrs = <<>> THEN st
    ELSE LET v == Head(nbrs) IN
         IF v \in DOMAIN st.dist /\ relaxes(st.dist, u, v)
         THEN dijkstraRelax([st EXCEPT !.dist[v] = st.dist[u] + 1,
                                       !.parent[v] = u,
                                       !.pq = Append(@, <<st.dist[u] + 1, v>>)],
                            u, Tail(nbrs))
         ELSE dijkstraRelax(st, u, Tail(nbrs))

\* while (!pq.empty())
RECURSIVE dijkstraLoop(_, _, _)
dijkstraLoop(m, st, endUser) ==
    IF st.pq = <<>> THEN st
    ELSE LET d == pqTop(st.pq)[1]
             u == pqTop(st.pq)[2]
             st1 == [st EXCEPT !.pq = pqPop(@)]
         IN  IF d > st1.dist[u] THEN dijkstraLoop(m, st1, endUser)
             ELSE IF u = endUser
                  THEN [st1 EXCEPT !.found = TRUE, !.finalDistance = st1.dist[u]]
                  ELSE dijkstraLoop(m, dijkstraRelax(st1, u, Ordered(m[u])), endUser)

\* while (!current.empty()) { push_front; if (no parent) break; current = parent }
RECURSIVE dijkstraPath(_, _, _)
dijkstraPath(parent, current, path) ==
    IF current # EmptyString
    THEN IF current \notin DOMAIN parent \/ parent[current] = EmptyString
         THEN <<current>> \o path
         ELSE dijkstraPath(parent, parent[current], <<current>> \o path)
    ELSE path

shortestPathDijkstraOf(m, startUser, endUser) ==
    IF startUser \notin DOMAIN m THEN [distance |-> -1, path |-> <<>>]
    ELSE IF endUser \notin DOMAIN m THEN [distance |-> -1, path |-> <<>>]
    ELSE IF startUser = endUser THEN [distance |-> 0, path |-> <<startUser>>]
    ELSE LET st0 == [pq            |-> <<<<0, startUser>>>>,
                     dist          |-> [x \in DOMAIN m |-> IF x = startUser THEN 0 ELSE INF],
                     parent        |-> [x \in DOMAIN m |-> EmptyString],
                     found         |-> FALSE,
                     finalDistance |-> -1]
             st == dijkstraLoop(m, st0, endUser)
         IN  [distance |-> st.finalDistance,
              path     |-> IF st.found THEN dijkstraPath(st.parent, endUser, <<>>) ELSE <<>>]

shortestPathDijkstra(startUser, endUser) ==
    /\ result = NoCall
    /\ result' = [op |-> "shortestPathDijkstra", a |-> startUser, b |-> endUser,
                  val |-> shortestPathDijkstraOf(adj, startUser, endUser)]
    /\ UNCHANGED adj

\* The caller takes the result; the next call may start.
Return ==
    /\ result # NoCall
    /\ result' = NoCall
    /\ UNCHANGED adj

\* addFriendship(user1, user2) keeps the network within cap friendships.
WithinEdges(user1, user2, cap) ==
    IF bothExist(adj, user1, user2) /\ user2 \notin getFriendsOf(adj, user1)
    THEN Cardinality(Edges(adj)) < cap
    ELSE TRUE

\* addUser and addFriendship alone.
NextMutate ==
    \/ \E u \in Labels : addUser(u)
    \/ \E a, b \in Labels : WithinEdges(a, b, MaxEdges) /\ addFriendship(a, b)
    \/ Return

SpecMutate == Init /\ [][NextMutate]_vars

\* The mutations and the friend queries.
NextFriends ==
    \/ \E u \in Labels : addUser(u)
    \/ \E a, b \in Labels : WithinEdges(a, b, MaxEdges) /\ addFriendship(a, b)
    \/ \E u \in Labels : getFriends(u)
    \/ \E a, b \in Labels : getMutualFriends(a, b)
    \/ \E u \in Labels : suggestFriends(u)
    \/ Return

SpecFriends == Init /\ [][NextFriends]_vars

\* The mutations and the two path searches.
NextPath ==
    \/ \E u \in Labels : addUser(u)
    \/ \E a, b \in Labels : WithinEdges(a, b, MaxEdges) /\ addFriendship(a, b)
    \/ \E a, b \in Labels : shortestPathBFS(a, b)
    \/ \E a, b \in Labels : shortestPathDijkstra(a, b)
    \/ Return

SpecPath == Init /\ [][NextPath]_vars

\* The mutations and suggestFriends alone, on a larger network whose callers
\* befriend two different labels only.
NextSuggest ==
    \/ \E u \in SuggestLabels : addUser(u)
    \/ \E a, b \in SuggestLabels :
           a # b /\ WithinEdges(a, b, MaxSuggestEdges) /\ addFriendship(a, b)
    \/ \E u \in SuggestLabels : suggestFriends(u)
    \/ Return

SpecSuggest == Init /\ [][NextSuggest]_vars

\* ------------------------------------------------------------- the searches, step by step
\* A search in progress: result holds its frame (its locals) until it returns.
\* enqueued and iters are bookkeeping: every label handed to q.push / pq.push
\* so far, and the number of passes through the while loop so far.
Running == result.op = "running"

Returned(fn, startUser, endUser, distance, path) ==
    [op |-> fn, a |-> startUser, b |-> endUser,
     val |-> [distance |-> distance, path |-> path]]

\* shortestPathBFS up to the while loop: the checks, the self path, the set-up.
callBFS(startUser, endUser) ==
    /\ result = NoCall
    /\ result' =
         IF startUser \notin DOMAIN adj \/ endUser \notin DOMAIN adj
         THEN Returned("shortestPathBFS", startUser, endUser, -1, <<>>)
         ELSE IF startUser = endUser
         THEN Returned("shortestPathBFS", startUser, endUser, 0, <<startUser>>)
         ELSE [op |-> "running", fn |-> "shortestPathBFS",
               a |-> startUser, b |-> endUser, pc |-> "loop",
               st |-> [q        |-> <<startUser>>,
                       dist     |-> [x \in DOMAIN adj |-> IF x = startUser THEN 0 ELSE -1],
                       parent   |-> [x \in DOMAIN adj |-> EmptyString],
                       found    |-> FALSE,
                       distance |-> -1],
               u |-> EmptyString, nbrs |-> <<>>,
               current |-> EmptyString, path |-> <<>>,
               enqueued |-> <<startUser>>, iters |-> 0]
    /\ UNCHANGED adj

\* The head of a pass through while (!q.empty() && !found): front and pop.
bfsDequeue ==
    /\ Running /\ result.fn = "shortestPathBFS" /\ result.pc = "loop"
    /\ result.st.q # <<>> /\ ~result.st.found
    /\ result' = [result EXCEPT !.u = Head(result.st.q),
                                !.st.q = Tail(@),
                                !.nbrs = Ordered(adj[Head(result.st.q)]),
                                !.pc = IF adj[Head(result.st.q)] = {} THEN "loop"
                                       ELSE "explore",
                                !.iters = @ + 1]
    /\ UNCHANGED adj

\* One pass through the for loop over adj.at(currentUser).
bfsVisit ==
    /\ Running /\ result.fn = "shortestPathBFS" /\ result.pc = "explore"
    /\ LET neighbor == Head(result.nbrs)
           rest == Tail(result.nbrs)
           back == IF rest = <<>> THEN "loop" ELSE "explore"
       IN  result' =
             IF neighbor \in DOMAIN result.st.dist /\ result.st.dist[neighbor] = -1
             THEN IF neighbor = result.b
                  THEN [result EXCEPT !.st.dist[neighbor] = result.st.dist[result.u] + 1,
                                      !.st.parent[neighbor] = result.u,
                                      !.st.q = Append(@, neighbor),
                                      !.st.found = TRUE,
                                      !.st.distance = result.st.dist[result.u] + 1,
                                      !.enqueued = Append(@, neighbor),
                                      !.nbrs = <<>>, !.pc = "loop"]
                  ELSE [result EXCEPT !.st.dist[neighbor] = result.st.dist[result.u] + 1,
                                      !.st.parent[neighbor] = result.u,
                                      !.st.q = Append(@, neighbor),
                                      !.enqueued = Append(@, neighbor),
                                      !.nbrs = rest, !.pc = back]
             ELSE [result EXCEPT !.nbrs = rest, !.pc = back]
    /\ UNCHANGED adj

\* The loop condition fails: start the walk back, or return "no path".
bfsLoopExit ==
    /\ Running /\ result.fn = "shortestPathBFS" /\ result.pc = "loop"
    /\ ~(result.st.q # <<>> /\ ~result.st.found)
    /\ result' = IF result.st.found
                 THEN [result EXCEPT !.pc = "walk", !.current = result.b]
                 ELSE Returned(result.fn, result.a, result.b, result.st.distance, <<>>)
    /\ UNCHANGED adj

\* One pass through while (!current.empty()) of shortestPathBFS.
bfsWalkStep ==
    /\ Running /\ result.fn = "shortestPathBFS" /\ result.pc = "walk"
    /\ result.current # EmptyString
    /\ result' = [result EXCEPT !.path = <<result.current>> \o @,
                                !.current = ParentOf(result.st.parent, result.current)]
    /\ UNCHANGED adj

\* The walk is over: return {distance, path}.
bfsWalkExit ==
    /\ Running /\ result.fn = "shortestPathBFS" /\ result.pc = "walk"
    /\ result.current = EmptyString
    /\ result' = Returned(result.fn, result.a, result.b, result.st.distance, result.path)
    /\ UNCHANGED adj

\* shortestPathDijkstra up to the while loop.
callDijkstra(startUser, endUser) ==
    /\ result = NoCall
    /\ result' =
         IF startUser \notin DOMAIN adj \/ endUser \notin DOMAIN adj
         THEN Returned("shortestPathDijkstra", startUser, endUser, -1, <<>>)
         ELSE IF startUser = endUser
         THEN Returned("shortestPathDijkstra", startUser, endUser, 0, <<startUser>>)
         ELSE [op |-> "running", fn |-> "shortestPathDijkstra",
               a |-> startUser, b |-> endUser, pc |-> "loop",
               st |-> [pq            |-> <<<<0, startUser>>>>,
                       dist          |-> [x \in DOMAIN adj |-> IF x = startUser THEN 0 ELSE INF],
                       parent        |-> [x \in DOMAIN adj |-> EmptyString],
                       found         |-> FALSE,
                       finalDistance |-> -1],
               u |-> EmptyString, nbrs |-> <<>>,
               current |-> EmptyString, path |-> <<>>,
               enqueued |-> <<startUser>>, iters |-> 0]
    /\ UNCHANGED adj

\* The head of a pass through while (!pq.empty()): top and pop, then the
\* continue on a stale entry, the break at endUser, or on to the neighbours.
dijkstraPop ==
    /\ Running /\ result.fn = "shortestPathDijkstra" /\ result.pc = "loop"
    /\ result.st.pq # <<>> /\ ~result.st.found
    /\ LET top == pqTop(result.st.pq)
       IN  result' =
             IF top[1] > result.st.dist[top[2]]
             THEN [result EXCEPT !.st.pq = pqPop(@), !.iters = @ + 1]
             ELSE IF top[2] = result.b
             THEN [result EXCEPT !.st.pq = pqPop(@), !.iters = @ + 1,
                                 !.st.found = TRUE,
                                 !.st.finalDistance = result.st.dist[top[2]]]
             ELSE [result EXCEPT !.st.pq = pqPop(@), !.iters = @ + 1,
                                 !.u = top[2],
                                 !.nbrs = Ordered(adj[top[2]]),
                                 !.pc = IF adj[top[2]] = {} THEN "loop" ELSE "relax"]
    /\ UNCHANGED adj

\* One pass through the for loop over adj.at(u): the relaxation of one edge.
dijkstraRelaxStep ==
    /\ Running /\ result.fn = "shortestPathDijkstra" /\ result.pc = "relax"
    /\ LET v == Head(result.nbrs)
           rest == Tail(result.nbrs)
           back == IF rest = <<>> THEN "loop" ELSE "relax"
       IN  result' =
             IF v \in DOMAIN result.st.dist /\ relaxes(result.st.dist, result.u, v)
             THEN [result EXCEPT !.st.dist[v] = result.st.dist[result.u] + 1,
                                 !.st.parent[v] = result.u,
                                 !.st.pq = Append(@, <<result.st.dist[result.u] + 1, v>>),
                                 !.enqueued = Append(@, v),
                                 !.nbrs = rest, !.pc = back]
             ELSE [result EXCEPT !.nbrs = rest, !.pc = back]
    /\ UNCHANGED adj

\* The queue is empty or the break was taken: walk back, or return "no path".
dijkstraLoopExit ==
    /\ Running /\ result.fn = "shortestPathDijkstra" /\ result.pc = "loop"
    /\ ~(result.st.pq # <<>> /\ ~result.st.found)
    /\ result' = IF result.st.found
                 THEN [result EXCEPT !.pc = "walk", !.current = result.b]
                 ELSE Returned(result.fn, result.a, result.b, result.st.finalDistance, <<>>)
    /\ UNCHANGED adj

\* One pass through while (!current.empty()) of shortestPathDijkstra; the
\* break on a missing or empty parent returns at once.
dijkstraWalkStep ==
    /\ Running /\ result.fn = "shortestPathDijkstra" /\ result.pc = "walk"
    /\ result.current # EmptyString
    /\ result' =
         IF \/ result.current \notin DOMAIN result.st.parent
            \/ result.st.parent[result.current] = EmptyString
         THEN Returned(result.fn, result.a, result.b, result.st.finalDistance,
                       <<result.current>> \o result.path)
         ELSE [result EXCEPT !.path = <<result.current>> \o @,
                             !.current = result.st.parent[result.current]]
    /\ UNCHANGED adj

dijkstraWalkExit ==
    /\ Running /\ result.fn = "shortestPathDijkstra" /\ result.pc = "walk"
    /\ result.current = EmptyString
    /\ result' = Returned(result.fn, result.a, result.b, result.st.finalDistance,
                          result.path)
    /\ UNCHANGED adj

\* A step of the search in progress.
SearchStep ==
    \/ bfsDequeue
    \/ bfsVisit
    \/ bfsLoopExit
    \/ bfsWalkStep
    \/ bfsWalkExit
    \/ dijkstraPop
    \/ dijkstraRelaxStep
    \/ dijkstraLoopExit
    \/ dijkstraWalkStep
    \/ dijkstraWalkExit

\* The mutations and the two searches run step by step; a search returns
\* before the caller goes on.
NextSteps ==
    \/ \E u \in StepLabels : addUser(u)
    \/ \E a, b \in StepLabels : WithinEdges(a, b, MaxStepEdges) /\ addFriendship(a, b)
    \/ \E a, b \in StepLabels : callBFS(a, b)
    \/ \E a, b \in StepLabels : callDijkstra(a, b)
    \/ SearchStep
    \/ ~Running /\ Return

\* The code is single-threaded and never blocks: a search in progress takes
\* its next step.
SpecSteps == Init /\ [][NextSteps]_vars /\ WF_vars(SearchStep)

\* ------------------------------------------------------------- properties
Users == DOMAIN adj

\* The users at most k friendships away from s, a friendship being usable
\* from either end.
RECURSIVE Within(_, _, _)
Within(m, s, k) ==
    IF k = 0 THEN {s}
    ELSE LET W == Within(m, s, k - 1)
         IN  W \cup {v \in DOMAIN m : \E u \in W : v \in m[u] \/ u \in m[v]}

Connected(m, s, e) == e \in Within(m, s, Cardinality(DOMAIN m))

\* The least number of friendships on a path from s to e (for connected s, e).
MinEdges(m, s, e) ==
    CHOOSE k \in 0..Cardinality(DOMAIN m) :
        /\ e \in Within(m, s, k)
        /\ k = 0 \/ e \notin Within(m, s, k - 1)

IsPathCall == result.op \in {"shortestPathBFS", "shortestPathDijkstra"}

\* C1: the friend relation is symmetric: for all users u and v, v is a friend
\* of u if and only if u is a friend of v.
C1_Symmetric ==
    \A u, v \in Users : (v \in adj[u]) <=> (u \in adj[v])

C1_Witness ==
    /\ result.op = "addFriendship" /\ result.out = "added"
    /\ \E u, v \in Users : u # v /\ v \in adj[u] /\ Cardinality(Edges(adj)) >= 3

\* Every label found in a friend set has its own entry.
FriendsAreUsers ==
    \A u \in Users : adj[u] \subseteq Users

\* C2: an addFriendship call naming a label that is not a user changes
\* nothing of the network, and every label in a friend set is a user.
C2_NoPartialMutation ==
    /\ [][\A a, b \in Labels :
            (addFriendship(a, b) /\ (a \notin DOMAIN adj \/ b \notin DOMAIN adj))
                => adj' = adj]_vars
    /\ []FriendsAreUsers

C2_Witness ==
    /\ result.op = "addFriendship" /\ result.out = "missing"
    /\ Users # {} /\ Edges(adj) # {}

\* C3: no user is a member of its own friend set.
C3_NoSelfLoop ==
    \A u \in Users : u \notin adj[u]

\* C4: for connected existing users, shortestPathBFS returns the least
\* number of friendships on any path between them.
C4_BFSMinimal ==
    (result.op = "shortestPathBFS" /\ result.a \in Users /\ result.b \in Users
        /\ Connected(adj, result.a, result.b))
    => result.val.distance = MinEdges(adj, result.a, result.b)

C4_Witness ==
    /\ result.op = "shortestPathBFS"
    /\ result.val.distance = 2
    /\ Cardinality(Edges(adj)) = 4
    /\ \A u \in Users : u \notin adj[u]

\* C5: for existing users, shortestPathDijkstra and shortestPathBFS return
\* the same distance.
C5_SameDistance ==
    /\ (result.op = "shortestPathDijkstra" /\ result.a \in Users /\ result.b \in Users)
        => result.val.distance = shortestPathBFSOf(adj, result.a, result.b).distance
    /\ (result.op = "shortestPathBFS" /\ result.a \in Users /\ result.b \in Users)
        => result.val.distance = shortestPathDijkstraOf(adj, result.a, result.b).distance

C5_Witness ==
    /\ result.op = "shortestPathDijkstra"
    /\ result.val.distance = 3

\* C6: on success both searches return a path that starts at start, ends at
\* end, steps only between friends and has distance + 1 elements.
IsPathFromTo(m, path, s, e, d) ==
    /\ Len(path) = d + 1
    /\ path[1] = s
    /\ path[Len(path)] = e
    /\ \A i \in 1..(Len(path) - 1) : path[i + 1] \in m[path[i]]

C6_PathInclusive ==
    (IsPathCall /\ result.a \in Users /\ result.b \in Users
        /\ result.val.distance # -1)
    => IsPathFromTo(adj, result.val.path, result.a, result.b, result.val.distance)

\* C7: for existing users in different components both searches return
\* distance -1 with an empty path, and never -1 for connected users.
C7_NoPath ==
    (IsPathCall /\ result.a \in Users /\ result.b \in Users)
    => IF Connected(adj, result.a, result.b)
       THEN result.val.distance # -1
       ELSE result.val.distance = -1 /\ result.val.path = <<>>

C7_Witness ==
    /\ result.op = "shortestPathDijkstra"
    /\ result.a \in Users /\ result.b \in Users
    /\ ~Connected(adj, result.a, result.b)
    /\ adj[result.a] # {} /\ adj[result.b] # {}

\* C8: the set getMutualFriends(a, b) returns for existing users a and b
\* contains neither a nor b.
C8_MutualExcludesEnds ==
    (result.op = "getMutualFriends" /\ result.a \in Users /\ result.b \in Users)
    => result.a \notin result.val /\ result.b \notin result.val

\* C9: suggestFriends(u) returns exactly one pair (c, s) for each user c
\* other than u that is no friend of u and is a friend of a friend of u,
\* s being the number of friends of u that have c as a friend.
Candidates(m, u) ==
    {c \in DOMAIN m : c # u /\ c \notin m[u] /\ \E f \in m[u] : f \in DOMAIN m /\ c \in m[f]}

Score(m, u, c) ==
    Cardinality({f \in m[u] : f \in DOMAIN m /\ c \in m[f]})

C9_SuggestExact ==
    (result.op = "suggestFriends" /\ result.a \in Users)
    => /\ {result.val[i] : i \in 1..Len(result.val)}
            = {<<c, Score(adj, result.a, c)>> : c \in Candidates(adj, result.a)}
       /\ Len(result.val) = Cardinality(Candidates(adj, result.a))
       /\ \A i \in 1..Len(result.val) :
            /\ result.val[i][1] # result.a
            /\ result.val[i][1] \notin adj[result.a]
            /\ result.val[i][2] > 0

C9_Witness ==
    /\ result.op = "suggestFriends"
    /\ Len(result.val) = 1
    /\ result.val[1][2] = 2
    /\ Cardinality(adj[result.a]) = 2

\* C10: the list suggestFriends returns is ordered by score descending and,
\* among equal scores, by label ascending.
C10_Sorted ==
    result.op = "suggestFriends"
    => \A i \in 1..(Len(result.val) - 1) :
          \/ result.val[i][2] > result.val[i + 1][2]
          \/ /\ result.val[i][2] = result.val[i + 1][2]
             /\ StrLess(result.val[i][1], result.val[i + 1][1])

C10_Witness ==
    /\ result.op = "suggestFriends"
    /\ Len(result.val) = 2
    /\ result.val[1][2] > result.val[2][2]
    /\ StrLess(result.val[2][1], result.val[1][1])

NoDuplicates(seq) ==
    \A i, j \in 1..Len(seq) : i # j => seq[i] # seq[j]

\* While a search runs: BFS has handed no user to q.push twice, the while
\* loop has made at most one pass per user, and the walk back has put at
\* most one element per user on the path.
SearchBounded ==
    Running =>
        /\ result.fn = "shortestPathBFS" => NoDuplicates(result.enqueued)
        /\ result.iters <= Cardinality(Users)
        /\ Len(result.path) <= Cardinality(Users)

\* A step of the Dijkstra loop pushes a user only with a distance strictly
\* below the one the user had, which becomes the user's distance.
PushOnlyOnDecrease ==
    (/\ Running /\ result.fn = "shortestPathDijkstra" /\ result.pc = "relax"
     /\ Len(result'.st.pq) > Len(result.st.pq))
    => LET new == result'.st.pq[Len(result'.st.pq)]
       IN  /\ new[1] < result.st.dist[new[2]]
           /\ new[1] = result'.st.dist[new[2]]

\* C11: shortestPathBFS and shortestPathDijkstra terminate on every
\* reachable network and for every pair of arguments: a search in progress
\* returns; BFS enqueues each user at most once, Dijkstra pushes a user only
\* when its distance strictly decreases, and the loops and the walk back
\* along the parents make at most one pass per user.
C11_Terminates ==
    /\ []SearchBounded
    /\ [][PushOnlyOnDecrease]_vars
    /\ (Running ~> ~Running)

C11_Witness ==
    /\ Running /\ result.pc = "walk"
    /\ result.iters >= 2
    /\ Len(result.path) = 2
    /\ \E u \in Users : u \in adj[u]

====
